---- MODULE Spec2Model ----
(***************************************************************************)
(* NVIDIARerank (llama_index/postprocessor/nvidia_rerank/base.py):          *)
(* construction (model / endpoint resolution) and the batched scoring       *)
(* operation _postprocess_nodes.                                            *)
(*                                                                          *)
(* Strings that the code takes apart (URLs, model names) are sequences of   *)
(* tokens, each token standing for a run of characters; None is a sentinel. *)
(***************************************************************************)
EXTENDS Integers, Sequences, FiniteSets, TLC

\* ------------------------------------------------------------------ bounds
MaxTopN == 2
MaxBatch == 2
MaxNodes == 3
MaxLogit == 1
MaxListing == 2

\* ------------------------------------------------------- strings and None
None == <<"<None>">>
NoneStr == "<None>"

Falsy(s) == s = None \/ s = <<>>

Min(a, b) == IF a < b THEN a ELSE b

\* ls[:n] for n >= 0
Take(ls, n) == SubSeq(ls, 1, Min(n, Len(ls)))

\* a batch one passage too long
SliceOverlong(ls, i, size) == SubSeq(ls, i + 1, Min(i + size + 1, Len(ls)))

\* ls[i : i + size], i a 0-based offset
Slice(ls, i, size) == SubSeq(ls, i + 1, Min(i + size, Len(ls)))

SlashToks == {"/", "//"}

RECURSIVE rstrip(_)
\* str.rstrip("/")
rstrip(s) ==
    IF Len(s) > 0 /\ s[Len(s)] \in SlashToks
    THEN rstrip(SubSeq(s, 1, Len(s) - 1))
    ELSE s

\* str.endswith("/v1")
EndsWithV1(p) == Len(p) >= 2 /\ p[Len(p) - 1] = "/" /\ p[Len(p)] = "v1"

SchemeToks == {"http:", "https:"}
HostToks == {"host:8000", "ai.api.nvidia.com"}

RECURSIVE UpToQuery(_)
UpToQuery(s) ==
    IF s = <<>> \/ s[1] = "?" THEN <<>> ELSE <<s[1]>> \o UpToQuery(Tail(s))

\* urllib.parse.urlparse, restricted to scheme, netloc and path
urlparse(u) ==
    LET hasScheme == Len(u) > 0 /\ u[1] \in SchemeToks
        rest1 == IF hasScheme THEN Tail(u) ELSE u
        hasNet == Len(rest1) >= 2 /\ rest1[1] = "//" /\ rest1[2] \in HostToks
        rest2 == IF hasNet THEN SubSeq(rest1, 3, Len(rest1)) ELSE rest1
    IN  [scheme |-> IF hasScheme THEN u[1] ELSE "",
         netloc |-> IF hasNet THEN rest1[2] ELSE "",
         path |-> UpToQuery(rest2)]

\* urllib.parse.urlunparse((scheme, netloc, path, None, None, None))
urlunparse(scheme, netloc, path) ==
    (IF scheme = "" THEN <<>> ELSE <<scheme>>)
    \o (IF netloc = "" THEN <<>> ELSE <<"//", netloc>>)
    \o path

\* ------------------------------------------------ utils (model table)
HOSTED_A == <<"https:", "//", "ai.api.nvidia.com", "/", "v1", "/", "reranking">>
HOSTED_B == <<"https:", "//", "ai.api.nvidia.com", "/", "v1", "/", "rerankqa">>

DEFAULT_MODEL == <<"nvidia/", "rerankqa">>
OLD_MODEL == <<"nv-rerank-qa">>

NoModel == [id |-> None, endpoint |-> None]

RANKING_MODEL_TABLE ==
    { [id |-> OLD_MODEL, endpoint |-> HOSTED_A],
      [id |-> DEFAULT_MODEL, endpoint |-> HOSTED_B] }

determine_model(name) ==
    IF \E m \in RANKING_MODEL_TABLE : m.id = name
    THEN CHOOSE m \in RANKING_MODEL_TABLE : m.id = name
    ELSE NoModel

KNOWN_URLS == { m.endpoint : m \in RANKING_MODEL_TABLE }

NO_KEY == "NO_API_KEY_PROVIDED"

\* llama_index.core get_from_param_or_env(key, param, env_key, default)
get_from_param_or_env(param, env) ==
    IF param # NoneStr THEN param
    ELSE IF env # NoneStr /\ env # "" THEN env
    ELSE NO_KEY

\* ------------------------------------------------ model listing service
LOCAL_MODEL == <<"local-rerank">>
INTERNAL_MODEL == <<"nvdev/", "rerank">>

ListedIds == {LOCAL_MODEL, INTERNAL_MODEL, DEFAULT_MODEL}

SeqsUpTo(S, n) == UNION { [1..k -> S] : k \in 0..n }

\* what GET <base_url>/models can answer
ListingResponses ==
    { [kind |-> "http_error", ids |-> <<>>], [kind |-> "malformed", ids |-> <<>>] }
    \cup { [kind |-> "ok", ids |-> l] : l \in SeqsUpTo(ListedIds, MaxListing) }

Request(method, url, passages) ==
    [method |-> method, url |-> url, passages |-> passages]

SeqToSet(s) == { s[k] : k \in 1..Len(s) }

\* ------------------------------------------------------- construction
\* self: the fields of the instance plus what construction did (warnings,
\* requests sent, the exception that ended it: err # "" once raised)
Raise(self, e) == [self EXCEPT !.err = e]

Warn(self, w) == [self EXCEPT !.warnings = Append(@, w)]

_validate_url(self, base_url) ==
    IF base_url = None THEN [self EXCEPT !.base_url = base_url]
    ELSE LET parsed == urlparse(base_url)
             normalized_path == rstrip(parsed.path)
         IN  IF ~(parsed.scheme # "" /\ parsed.netloc # "")
             THEN Raise(self, "ValueError")
             ELSE IF ~EndsWithV1(normalized_path)
             THEN [Warn(self, "not_v1") EXCEPT !.base_url =
                      urlunparse(parsed.scheme, parsed.netloc,
                                 normalized_path \o <<"/", "v1">>)]
             ELSE [self EXCEPT !.base_url = base_url]

\* returns self with .listed set to the ids of the models returned
_get_models(self, r) ==
    IF self.base_url = None THEN Raise(self, "AttributeError")
    ELSE LET bu == rstrip(self.base_url) \o <<"/">>
             url == IF self.is_hosted
                    THEN <<"https:", "//", "integrate.api.nvidia.com", "/", "v1", "/", "models">>
                    ELSE rstrip(bu) \o <<"/", "models">>
             s1 == [self EXCEPT !.base_url = bu,
                                !.net = Append(@, Request("GET", url, <<>>))]
         IN  IF r.kind = "http_error" THEN Raise(s1, "HTTPError")
             ELSE IF r.kind = "malformed" THEN Raise(s1, "AssertionError")
             ELSE [s1 EXCEPT !.listed =
                      IF self.is_hosted
                      THEN { m.id : m \in RANKING_MODEL_TABLE }
                      ELSE SeqToSet(r.ids),
                   !.first = IF r.ids = <<>> THEN None ELSE r.ids[1]]

\* the listing fetched from the network in hosted mode too
available_models_fetched(self, r) == _get_models(self, r)

available_models(self, r) ==
    IF ~self.is_hosted THEN _get_models(self, r)
    ELSE [self EXCEPT !.listed = { m.id : m \in RANKING_MODEL_TABLE }]

get_default_model(self, r) ==
    IF ~self.is_hosted
    THEN LET s1 == available_models(self, r)
         IN  IF s1.err # "" THEN s1
             ELSE IF ~Falsy(s1.first)
             THEN Warn([s1 EXCEPT !.model = s1.first], "default_model")
             ELSE Raise([s1 EXCEPT !.model = None], "ValueError")
    ELSE [self EXCEPT !.model = DEFAULT_MODEL]

_validate_model(self, model_name, r) ==
    LET model == determine_model(model_name)
        s1 == available_models(self, r)
    IN  IF s1.err # "" THEN s1
        ELSE IF model = NoModel /\ self.is_hosted
        THEN Warn(s1, "unknown_validity")
        ELSE IF model = NoModel /\ model_name \notin s1.listed
        THEN Raise(s1, "ValueError")
        ELSE IF model # NoModel /\ ~Falsy(model.endpoint)
        THEN [s1 EXCEPT !.base_url = model.endpoint]
        ELSE s1

StartsWithNvdev(m) == Len(m) > 0 /\ m[1] = "nvdev/"

\* NVIDIARerank.__init__ up to the resolution of the model: the default
\* model, hosted or not, the API key, the base_url
NewInstance(model, api_key, base_url, env_key) ==
    LET m0 == IF Falsy(base_url) \/ (base_url \in KNOWN_URLS /\ Falsy(model))
              THEN (IF Falsy(model) THEN DEFAULT_MODEL ELSE model)
              ELSE model
        s0 == [model |-> m0,
               base_url |-> base_url,
               is_hosted |-> base_url \in KNOWN_URLS,
               api_key |-> get_from_param_or_env(api_key, env_key),
               warnings |-> <<>>, net |-> <<>>, err |-> "",
               listed |-> {}, first |-> None]
    IN  IF s0.is_hosted
        THEN IF s0.api_key = "" \/ s0.api_key = NO_KEY
             THEN Raise(s0, "ValueError") ELSE s0
        ELSE _validate_url(s0, base_url)

\* __init__: if not self.model, answered by r if a listing is requested
ResolveModel(self, r) ==
    IF Falsy(self.model)
    THEN IF self.is_hosted THEN [self EXCEPT !.model = DEFAULT_MODEL]
         ELSE get_default_model(self, r)
    ELSE self

\* __init__: the validation of the model and the last statement
ValidateAndFinish(self, arg_base_url, r) ==
    LET s1 == IF ~StartsWithNvdev(self.model)
              THEN _validate_model(self, self.model, r)
              ELSE self
    IN  IF s1.err # "" THEN s1 ELSE [s1 EXCEPT !.base_url = arg_base_url]

\* ------------------------------------------------------- scoring service
NoQuery == "<None>"
Queries == {NoQuery, "", "what"}

ErrorKinds == {"http_error", "no_rankings", "not_list", "not_dicts", "missing_keys"}

RankingEntries(b) == [index : 0..b, logit : 0..MaxLogit]

\* what POST <base_url> can answer to a batch of b passages
Responses(b) ==
    { [kind |-> k, rankings |-> <<>>] : k \in ErrorKinds }
    \cup { [kind |-> "ok", rankings |-> l] : l \in SeqsUpTo(RankingEntries(b), b + 1) }

NoResponse == [kind |-> "none", rankings |-> <<>>]

\* batch[index], a Python list subscript: negative indices count from the end
InRange(index, b) == -b <= index /\ index <= b - 1
Subscript(batch, index) ==
    IF index < 0 THEN batch[Len(batch) + index + 1] ELSE batch[index + 1]

NodeWithScore(node, score) == [node |-> node, score |-> score]

RECURSIVE InsertDesc(_, _)
\* x goes behind every element whose score is not smaller
InsertDesc(x, s) ==
    IF s = <<>> THEN <<x>>
    ELSE IF s[1].score >= x.score THEN <<s[1]>> \o InsertDesc(x, Tail(s))
    ELSE <<x>> \o s

RECURSIVE SortDesc(_, _)
\* list.sort(key=score, reverse=True): stable, descending
SortDesc(s, acc) ==
    IF s = <<>> THEN acc ELSE SortDesc(Tail(s), InsertDesc(s[1], acc))

\* the shape of the response not checked
OutcomeNoAsserts(r, b, n) ==
    IF r.kind = "http_error" THEN "HTTPError"
    ELSE IF \E k \in 1..Len(Take(r.rankings, n)) : ~InRange(r.rankings[k].index, b)
    THEN "IndexError"
    ELSE ""

\* the exception the loop body raises on response r to a batch of b passages
\* ("" if none): raise_for_status, the asserts on the shape, batch[index]
Outcome(r, b, n) ==
    IF r.kind = "http_error" THEN "HTTPError"
    ELSE IF r.kind # "ok" THEN "AssertionError"
    ELSE IF \E k \in 1..Len(Take(r.rankings, n)) : ~InRange(r.rankings[k].index, b)
    THEN "IndexError"
    ELSE ""

\* the body of the batch loop after the response passed the checks
Scored(batch, rankings, n) ==
    LET taken == Take(rankings, n)
    IN  [k \in 1..Len(taken) |->
            NodeWithScore(Subscript(batch, taken[k].index), taken[k].logit)]

\* the merge without the sort
FinalizeNoSort(res, nNodes, size, n) == Take(res, n)

\* the merge without the final cut
FinalizeNoCut(res, nNodes, size, n) ==
    IF nNodes > size THEN SortDesc(res, <<>>) ELSE res

\* the sort also applied to a single full batch
FinalizeSortFull(res, nNodes, size, n) ==
    Take(IF nNodes >= size THEN SortDesc(res, <<>>) ELSE res, n)

\* results after the loop: sorted if several batches, cut to top_n
Finalize(res, nNodes, size, n) ==
    Take(IF nNodes > size THEN SortDesc(res, <<>>) ELSE res, n)

\* ------------------------------------------------------------- state
VARIABLES
    ctor,            \* __init__: "new", "resolve", "validate", then "ok" (the
                     \* instance exists) or "error" (__init__ raised)
    arg_base_url,    \* the base_url argument of __init__
    model, base_url, is_hosted, api_key, top_n, max_batch_size,
    warnings,        \* warnings emitted by the operation in progress / last run
    net,             \* requests sent by the operation in progress / last run
    err,             \* exception raised by that operation, "" if none
    pc,              \* _postprocess_nodes: "idle", "loop", "returned", "raised"
    nodes, query,    \* its arguments
    i,               \* offset of the next batch
    results,         \* the accumulator of the loop
    ret,             \* the returned list
    events,          \* dispatcher events of the invocation
    response,        \* the last scoring response
    svc_distinct,    \* every response so far listed each position at most once
    svc_ranked,      \* every response so far ranked its whole batch, descending
    svc_logit        \* then: the logit the service gave each passage sent so far

inst == <<ctor, arg_base_url, model, base_url, is_hosted, api_key, top_n,
          max_batch_size>>
call == <<pc, nodes, query, i, results, ret, events, response,
          svc_distinct, svc_ranked, svc_logit>>
vars == <<inst, call, warnings, net, err>>

ModelArgs == {None, DEFAULT_MODEL, OLD_MODEL, LOCAL_MODEL, INTERNAL_MODEL}
SELF_CUSTOM == <<"http:", "//", "host:8000", "/", "custom">>
SELF_V1 == <<"http:", "//", "host:8000", "/", "v1", "/">>
UrlArgs == {None, <<>>, <<"not-a-url">>, HOSTED_B, SELF_CUSTOM, SELF_V1}
KeyArgs == {NoneStr, "key"}

Init ==
    /\ ctor = "new" /\ arg_base_url = None
    /\ model = None /\ base_url = None /\ is_hosted = TRUE /\ api_key = NO_KEY
    /\ top_n = 0 /\ max_batch_size = 1
    /\ warnings = <<>> /\ net = <<>> /\ err = ""
    /\ pc = "idle" /\ nodes = <<>> /\ query = NoQuery /\ i = 0
    /\ results = <<>> /\ ret = <<>> /\ events = <<>> /\ response = NoResponse
    /\ svc_distinct = TRUE /\ svc_ranked = TRUE /\ svc_logit = <<>>

\* the instance under construction, as the methods see it
Self ==
    [model |-> model, base_url |-> base_url, is_hosted |-> is_hosted,
     api_key |-> api_key, warnings |-> warnings, net |-> net, err |-> err,
     listed |-> {}, first |-> None]

\* self written back; construction goes on at position next unless it raised
Becomes(self, next) ==
    /\ ctor' = IF self.err = "" THEN next ELSE "error"
    /\ model' = self.model
    /\ base_url' = self.base_url
    /\ is_hosted' = self.is_hosted
    /\ api_key' = self.api_key
    /\ warnings' = self.warnings
    /\ net' = self.net
    /\ err' = self.err

\* NVIDIARerank(model=..., api_key=..., base_url=..., top_n=..., max_batch_size=...)
\* up to line 103
Construct ==
    /\ ctor = "new"
    /\ \E m \in ModelArgs, k \in KeyArgs, e \in KeyArgs, u \in UrlArgs,
          n \in 0..MaxTopN, b \in 1..MaxBatch :
          /\ Becomes(NewInstance(m, k, u, e), "resolve")
          /\ arg_base_url' = u
          /\ top_n' = n
          /\ max_batch_size' = b
    /\ UNCHANGED call

\* lines 105-110; r answers GET <base_url>/models if it is sent
ConstructResolve ==
    /\ ctor = "resolve"
    /\ \E r \in ListingResponses :
          Becomes(ResolveModel(Self, r), "validate")
    /\ UNCHANGED <<arg_base_url, top_n, max_batch_size, call>>

\* lines 112-116; r answers GET <base_url>/models if it is sent
ConstructValidate ==
    /\ ctor = "validate"
    /\ \E r \in ListingResponses :
          Becomes(ValidateAndFinish(Self, arg_base_url, r), "ok")
    /\ UNCHANGED <<arg_base_url, top_n, max_batch_size, call>>

\* the check of the query left out
QueryMissingNever(q) == FALSE

\* if query_bundle is None
QueryMissing(q) == q = NoQuery

StartEvent(q, ns) == [type |-> "start", nodes |-> ns]
EndEvent(res) == [type |-> "end", nodes |-> res]

\* _postprocess_nodes up to the batch loop
Invoke ==
    /\ ctor = "ok" /\ pc # "loop"
    /\ \E n \in 0..MaxNodes, q \in Queries :
          /\ nodes' = [k \in 1..n |-> k]
          /\ query' = q
          /\ events' = <<StartEvent(q, [k \in 1..n |-> k])>>
          /\ IF QueryMissing(q) THEN pc' = "raised" /\ err' = "ValueError"
             ELSE IF n = 0 THEN pc' = "returned" /\ err' = ""
             ELSE pc' = "loop" /\ err' = ""
    /\ i' = 0 /\ results' = <<>> /\ ret' = <<>> /\ response' = NoResponse
    /\ svc_distinct' = TRUE /\ svc_ranked' = TRUE /\ svc_logit' = <<>>
    /\ warnings' = <<>> /\ net' = <<>>
    /\ UNCHANGED inst

\* ---- what the responses were (kept to state the properties' preconditions)
Position(index, b) == IF index < 0 THEN index + b ELSE index

DistinctPositions(rankings, b) ==
    \A j, k \in 1..Len(rankings) :
        (j # k /\ InRange(rankings[j].index, b) /\ InRange(rankings[k].index, b))
            => Position(rankings[j].index, b) # Position(rankings[k].index, b)

IsRanking(rankings, b) ==
    /\ Len(rankings) = b
    /\ \A k \in 1..b : InRange(rankings[k].index, b)
    /\ { Position(rankings[k].index, b) : k \in 1..b } = 0..(b - 1)
    /\ \A k \in 1..(b - 1) : rankings[k].logit >= rankings[k + 1].logit

LogitsByPosition(rankings, b) ==
    [p \in 1..b |->
        LET k == CHOOSE k \in 1..b : Position(rankings[k].index, b) = p - 1
        IN  rankings[k].logit]

\* one iteration of the batch loop: the request, the response r and what the
\* code does with it; after the last batch the rest of _postprocess_nodes
RerankBatch ==
    /\ pc = "loop"
    /\ LET batch == Slice(nodes, i, max_batch_size)
           b == Len(batch)
           last == i + max_batch_size >= Len(nodes)
       IN  IF base_url = None
           THEN \* requests rejects the URL before sending anything
                /\ pc' = "raised" /\ err' = "MissingSchema"
                /\ UNCHANGED <<net, i, results, ret, events, response,
                               svc_distinct, svc_ranked, svc_logit>>
           ELSE \E r \in Responses(b) :
                /\ net' = Append(net, Request("POST", base_url, batch))
                /\ response' = r
                /\ IF Outcome(r, b, top_n) # ""
                   THEN /\ pc' = "raised" /\ err' = Outcome(r, b, top_n)
                        /\ UNCHANGED <<i, results, ret, events,
                                       svc_distinct, svc_ranked, svc_logit>>
                   ELSE LET res == results \o Scored(batch, r.rankings, top_n)
                            final == Finalize(res, Len(nodes), max_batch_size, top_n)
                        IN  /\ svc_distinct' =
                                  (svc_distinct /\ DistinctPositions(r.rankings, b))
                            /\ svc_ranked' = (svc_ranked /\ IsRanking(r.rankings, b))
                            /\ svc_logit' =
                                  IF svc_ranked /\ IsRanking(r.rankings, b)
                                  THEN svc_logit \o LogitsByPosition(r.rankings, b)
                                  ELSE <<>>
                            /\ i' = i + max_batch_size
                            /\ err' = ""
                            /\ IF last
                               THEN /\ results' = final
                                    /\ ret' = final
                                    /\ events' = Append(events, EndEvent(final))
                                    /\ pc' = "returned"
                               ELSE /\ results' = res
                                    /\ pc' = "loop"
                                    /\ UNCHANGED <<ret, events>>
    /\ UNCHANGED <<inst, nodes, query, warnings>>

Next ==
    \/ Construct
    \/ ConstructResolve
    \/ ConstructValidate
    \/ Invoke
    \/ RerankBatch

Spec == Init /\ [][Next]_vars

\* ============================================================ properties
Max(a, b) == IF a > b THEN a ELSE b

CeilDiv(a, b) == (a + b - 1) \div b

Count(s, v) == Cardinality({ k \in 1..Len(s) : s[k] = v })

Scores(res) == [k \in 1..Len(res) |-> res[k].score]

\* how often v occurs among the k largest elements of s
TopCount(s, k, v) ==
    Min(Count(s, v), Max(0, k - Cardinality({ j \in 1..Len(s) : s[j] > v })))

Returned == ctor = "ok" /\ pc = "returned"

\* C1: when every batch was answered with a complete ranking of the batch in
\* descending logit order, the scores of the returned list are, as a
\* multiset, the min(top_n, N) highest logits over all N passages.
C1_ReturnsGlobalTopN ==
    (Returned /\ nodes # <<>> /\ svc_ranked) =>
        /\ Len(svc_logit) = Len(nodes)
        /\ Len(ret) = Min(top_n, Len(nodes))
        /\ \A v \in 0..MaxLogit :
              Count(Scores(ret), v) = TopCount(svc_logit, Min(top_n, Len(nodes)), v)

\* several batches, fewer results wanted than a batch holds, and the best
\* passage is in the last batch behind worse ones of the first
C1_Witness ==
    /\ Returned /\ svc_ranked
    /\ max_batch_size = 2 /\ Len(nodes) = 3 /\ top_n = 1
    /\ svc_logit = <<0, 0, 1>>
    /\ Scores(ret) = <<1>>

\* C2: with each response listing each position of its batch at most once,
\* the returned list is no longer than min(top_n, N).
C2_LengthBounded ==
    (Returned /\ svc_distinct) => Len(ret) <= Min(top_n, Len(nodes))

\* the batches together delivered more than top_n entries
C2_Witness ==
    /\ Returned /\ svc_distinct
    /\ Len(nodes) > max_batch_size /\ top_n > 0 /\ top_n < Len(nodes)
    /\ Len(ret) = top_n
    /\ Len(svc_logit) = Len(nodes)

\* C3: an invocation with a query in which no request fails sends exactly
\* ceil(N / B) scoring requests, the k-th carrying the k-th contiguous slice
\* of at most B passages in input order, every passage in exactly one.
C3_Batches ==
    (Returned /\ query # NoQuery) =>
        LET n == Len(nodes)
            size == max_batch_size
        IN  /\ Len(net) = CeilDiv(n, size)
            /\ \A k \in 1..Len(net) :
                  /\ net[k].method = "POST"
                  /\ Len(net[k].passages) >= 1
                  /\ Len(net[k].passages) <= size
                  /\ Len(net[k].passages) = Min(k * size, n) - (k - 1) * size
                  /\ \A j \in 1..Len(net[k].passages) :
                        net[k].passages[j] = nodes[(k - 1) * size + j]
            /\ \A p \in 1..n :
                  Cardinality({ k \in 1..Len(net) :
                      p \in SeqToSet(net[k].passages) }) = 1

\* two batches, the second shorter
C3_Witness ==
    /\ Returned /\ Len(nodes) = 3 /\ max_batch_size = 2
    /\ Len(net) = 2 /\ net[2].passages = <<3>>

NonIncreasing(res) ==
    \A k \in 1..(Len(res) - 1) : res[k].score >= res[k + 1].score

\* C4: with more than one batch the returned list is in non-increasing score
\* order; with a single batch (N <= B) it is the first min(top_n, length)
\* entries of the service's rankings in the service's order.
C4_SortedIffSeveralBatches ==
    (Returned /\ nodes # <<>>) =>
        IF Len(nodes) > max_batch_size
        THEN NonIncreasing(ret)
        ELSE /\ Len(ret) = Min(top_n, Len(response.rankings))
             /\ \A k \in 1..Len(ret) :
                   /\ ret[k].score = response.rankings[k].logit
                   /\ ret[k].node = nodes[response.rankings[k].index + 1]

\* a single full batch returned in ascending order
C4_Witness ==
    /\ Returned /\ Len(nodes) = max_batch_size /\ Len(nodes) = 2
    /\ Len(ret) = 2 /\ ret[1].score < ret[2].score

\* C5: a failed scoring request (HTTP error status or a response of the
\* wrong shape) ends the invocation with an error: it is the last request,
\* it was sent once, no further request can be sent, nothing is returned.
C5_FailureAborts ==
    (ctor = "ok" /\ response.kind \in ErrorKinds) =>
        /\ pc = "raised" /\ err \in {"HTTPError", "AssertionError"}
        /\ ret = <<>>
        /\ \A k \in 1..Len(events) : events[k].type # "end"
        /\ Len(net) = (i \div max_batch_size) + 1
        /\ \A j, k \in 1..Len(net) : j # k => net[j].passages # net[k].passages
        /\ ~ENABLED RerankBatch

\* the second of three batches fails after the first delivered results
C5_Witness ==
    /\ pc = "raised" /\ response.kind = "missing_keys"
    /\ Len(net) = 2 /\ Len(nodes) = 3 /\ results # <<>>

Invoked == ctor = "ok" /\ pc # "idle"

\* C6 (as stated): an invocation whose query is absent or whose query text
\* is the empty string ends in an error and sends no scoring request.
C6_EmptyOrAbsentQueryRejected ==
    (Invoked /\ (query = NoQuery \/ query = "")) =>
        (pc = "raised" /\ net = <<>>)

\* C6 (amended): an invocation whose query is absent (None) ends in an error
\* and sends no scoring request, for every passage list.
C6_AbsentQueryRejected ==
    (Invoked /\ query = NoQuery) =>
        /\ pc = "raised" /\ err = "ValueError"
        /\ net = <<>> /\ ret = <<>>
        /\ ~ENABLED RerankBatch

C6_Witness ==
    /\ Invoked /\ query = NoQuery /\ Len(nodes) = MaxNodes
    /\ pc = "raised" /\ base_url # None

Constructed == ctor = "ok" /\ pc = "idle"

Posts == { k \in 1..Len(net) : net[k].method = "POST" }

\* C7: after a successful construction with a self-hosted base_url whose
\* path does not end in /v1 (the warning was emitted), base_url is the
\* normalized URL ending in /v1, and scoring requests are POSTed to it.
C7_NormalizedUrlKept ==
    /\ (Constructed /\ ~is_hosted /\ "not_v1" \in SeqToSet(warnings)) =>
          EndsWithV1(base_url)
    /\ (Invoked /\ ~is_hosted /\ base_url # None) =>
          \A k \in Posts : EndsWithV1(rstrip(urlparse(net[k].url).path))

\* C8: if the model is not an internal one and its entry in the model table
\* has an endpoint, then after construction base_url is that endpoint and
\* every scoring request is POSTed to it.
C8_TableEndpointWins ==
    (ctor = "ok" /\ ~StartsWithNvdev(model) /\ determine_model(model) # NoModel
        /\ ~Falsy(determine_model(model).endpoint)) =>
        /\ base_url = determine_model(model).endpoint
        /\ pc # "idle" =>
              \A k \in Posts : net[k].url = determine_model(model).endpoint

\* C9: the start event is the first event of every invocation, and every
\* invocation that returned (the one with no passages included) emitted
\* exactly one end event, last, carrying the returned list.
C9_EventsAroundInvocation ==
    /\ Invoked => (events # <<>> /\ events[1].type = "start")
    /\ Returned =>
          /\ Cardinality({ k \in 1..Len(events) : events[k].type = "end" }) = 1
          /\ events[Len(events)] = EndEvent(ret)

\* C10 (as stated): construction sends no scoring request, no listing
\* request in hosted mode and at most one GET <base_url>/models otherwise.
C10_AtMostOneListing ==
    (ctor \in {"ok", "error"} /\ pc = "idle") =>
        /\ Posts = {}
        /\ is_hosted => net = <<>>
        /\ Len(net) <= 1

\* C10 (amended): construction sends no scoring request, no listing request
\* in hosted mode, and otherwise at most two GET <base_url>/models: two only
\* when the model is unspecified and a listing answered the auto-selection.
C10_AtMostTwoListings ==
    (ctor \in {"ok", "error"} /\ pc = "idle") =>
        /\ Posts = {}
        /\ is_hosted => net = <<>>
        /\ Len(net) <= 2
        /\ \A k \in 1..Len(net) :
              LET u == net[k].url
              IN  /\ Len(u) >= 2
                  /\ u[Len(u) - 1] = "/" /\ u[Len(u)] = "models"
                  /\ urlparse(u).netloc = "host:8000"
        /\ Len(net) = 2 => "default_model" \in SeqToSet(warnings)

\* self-hosted, no model given: the auto-selection and the validation of
\* the selected model each fetched the listing
C10_Witness ==
    /\ Constructed /\ ~is_hosted /\ Len(net) = 2 /\ model = LOCAL_MODEL

====
